---- MODULE Spec2Model ----
(***************************************************************************)
(* Model of the project-timeline dashboard (gantt_chart.py,               *)
(* material_management.py, data_storage.py).                              *)
(*                                                                         *)
(* One Streamlit session is modelled: st.session_state.tasks,             *)
(* st.session_state.materials, the per-index UI flags, and the file       *)
(* data/materials.json.  Every button handler is one action; the write of *)
(* the file inside save_materials is stepped record by record, because    *)
(* the file passes through intermediate contents while json.dump runs.    *)
(*                                                                         *)
(* Conventions.  Python list indices are kept 0-based in the action       *)
(* parameters (the i of tasks[i]); the sequence element is tasks[i + 1].  *)
(* A dict key that may be missing is an option value: <<>> for a missing  *)
(* key, <<v>> for a present one.  A "%Y-%m-%d %H:%M" string is the tuple  *)
(* <<day, hour, minute>> of January 2025; a datetime is a record.         *)
(***************************************************************************)
EXTENDS Integers, Sequences, FiniteSets, TLC

VARIABLES
    tasks,          \* st.session_state.tasks
    materials,      \* st.session_state.materials (when has_materials)
    has_materials,  \* 'materials' in st.session_state
    editing,        \* the indices k with st.session_state["editing_k"] true
    file,           \* data/materials.json
    pc,             \* "idle", or the point reached inside save_materials
    last,           \* the last handler run, its outcome, and its index (of a
                    \* Materials handler: only while it runs; of a subtask
                    \* handler: <<i, j>>)
    adds,           \* history: number of Add Task handlers run
    deletes,        \* history: number of task delete handlers run
    tog,            \* history: completed values before the last two toggles
    before,         \* history: materials and file when the last handler began
    saved,          \* history: the collection of the last save that finished
    faults,         \* history: number of I/O errors injected so far
    kpi,            \* what create_kpi_dashboard computed for the current tasks
                    \* (cleared by every handler that changes the tasks)
    test_date,      \* st.session_state.test_date
    show_details,   \* the indices i with st.session_state["show_details_i"] true
    show_subtask_form,  \* the same for "show_subtask_form_i"
    due,            \* the "Materials Needed Today" buckets of the last script run
    chart,          \* the rows create_gantt_chart built for the current tasks
    days            \* the per-day grouping of "Existing Tasks" of the last run

taskVars == <<tasks, adds, deletes, tog>>
matVars == <<materials, has_materials, editing, file, pc, before, saved, faults>>
flagVars == <<show_details, show_subtask_form>>
uiVars == <<test_date, show_details, show_subtask_form, due, chart, days>>
vars == <<tasks, materials, has_materials, editing, file, pc, last, adds,
          deletes, tog, before, saved, faults, kpi, test_date, show_details,
          show_subtask_form, due, chart, days>>

-----------------------------------------------------------------------------
(* Bounds of the model *)

MaxTasks == 3
MaxAdds == 2
MaxDeletes == 2
MaxMaterials == 2
MaxFaults == 1
MaxSubtasks == 3

-----------------------------------------------------------------------------
(* Python values *)

PyNone == "<None>"

\* list.pop(i) for an index in range
Pop(s, i) == SubSeq(s, 1, i) \o SubSeq(s, i + 2, Len(s))

Range(s) == {s[k] : k \in 1..Len(s)}

-----------------------------------------------------------------------------
(* Tasks *)

People == {"Christian", "Jordan", "Crew"}

\* The default collection of main(), cut down to two of its eighteen tasks:
\* the first one (the only one with a 'Completed' key and with subtasks) and
\* "Supervise permeable paver installation".  It is the collection the
\* program is in after the other sixteen have been deleted.
InitialTasks ==
    << [Task |-> "Mark flagstone pathway locations",
        Assigned_To |-> "Christian",
        Start |-> <<6, 8, 0>>, End |-> <<6, 10, 0>>,
        Completed |-> <<FALSE>>,
        Subtasks |->
          << [Task |-> "Measure and mark corners", Assigned_To |-> "Christian",
              Start |-> <<6, 8, 0>>, End |-> <<6, 9, 0>>,
              Completed |-> <<FALSE>>],
             [Task |-> "Place temporary markers", Assigned_To |-> "Christian",
              Start |-> <<6, 9, 0>>, End |-> <<6, 10, 0>>,
              Completed |-> <<>>] >>],
       [Task |-> "Supervise permeable paver installation",
        Assigned_To |-> "Jordan",
        Start |-> <<8, 8, 0>>, End |-> <<9, 17, 0>>,
        Completed |-> <<>>,
        Subtasks |-> <<>>] >>

\* What the user types into the Add New Task form: name, assignee, start, end.
\* The first name repeats the name of a default task.
NewTaskInputs ==
    { <<"Supervise permeable paver installation", "Crew", <<6, 7, 0>>, <<6, 9, 0>>>>,
      <<"Order pavers", "Jordan", <<7, 8, 0>>, <<7, 12, 0>>>>,
      <<"Order pavers", "Christian", <<6, 7, 0>>, <<7, 9, 0>>>> }

\* new_task of main(): no 'Completed' key, an empty 'Subtasks' list
NewTask(in) ==
    [Task |-> in[1], Assigned_To |-> in[2], Start |-> in[3], End |-> in[4],
     Completed |-> <<>>, Subtasks |-> <<>>]

\* dict.get('Completed', False) on a task dict
DictGetCompleted(t) == IF t.Completed = <<>> THEN FALSE ELSE t.Completed[1]

\* pd.DataFrame(st.session_state.tasks) has a 'Completed' column as soon as
\* one of the dicts has the key; the rows without the key hold NaN there.
FrameHasCompleted(ts) == \E k \in 1..Len(ts) : ts[k].Completed # <<>>

\* task.get('Completed', False) on row i of that frame (a pandas Series):
\* the default is used only when the frame has no such column.
SeriesGetCompleted(ts, i) ==
    IF FrameHasCompleted(ts)
    THEN IF ts[i + 1].Completed = <<>> THEN "NaN"
         ELSE IF ts[i + 1].Completed[1] THEN "True" ELSE "False"
    ELSE "False"

\* Python's `not completed`: NaN is a non-zero float, so it is truthy.
PyNot(v) == (v = "False")

\* st.session_state.tasks[i]['Completed'] = not completed
ToggledTasks(ts, i) ==
    [ts EXCEPT ![i + 1].Completed = << PyNot(SeriesGetCompleted(ts, i)) >>]

\* (mutant) tasks.pop() without the index: the last task goes
PoppedTasksLast(ts, i) == SubSeq(ts, 1, Len(ts) - 1)

\* st.session_state.tasks.pop(i)
PoppedTasks(ts, i) == Pop(ts, i)

\* st.session_state.tasks.append(new_task)
AppendedTasks(ts, in) == Append(ts, NewTask(in))

-----------------------------------------------------------------------------
(* create_kpi_dashboard *)

\* (mutant) the total taken over the flattened list, subtasks included
TotalTasksFlat(ts) ==
    Len(ts) + Cardinality(UNION {{<<k, j>> : j \in 1..Len(ts[k].Subtasks)} :
                                    k \in 1..Len(ts)})

\* total_tasks = len(tasks)
TotalTasks(ts) == Len(ts)

\* completed_tasks = sum(1 for task in tasks if task.get('Completed', False))
RECURSIVE CompletedUpTo(_, _)
CompletedUpTo(ts, n) ==
    IF n = 0 THEN 0
    ELSE CompletedUpTo(ts, n - 1) + (IF DictGetCompleted(ts[n]) THEN 1 ELSE 0)

CompletedTasks(ts) == CompletedUpTo(ts, Len(ts))

\* The loop that fills team_metrics, a dict in insertion order: a sequence
\* of [member, total, completed].
RECURSIVE TeamMetricsUpTo(_, _)
TeamMetricsUpTo(ts, n) ==
    IF n = 0 THEN <<>>
    ELSE LET tm == TeamMetricsUpTo(ts, n - 1)
             assignee == ts[n].Assigned_To
             tm1 == IF \E j \in 1..Len(tm) : tm[j].member = assignee
                    THEN tm
                    ELSE Append(tm, [member |-> assignee, total |-> 0,
                                     completed |-> 0])
         IN  [j \in 1..Len(tm1) |->
                IF tm1[j].member = assignee
                THEN [tm1[j] EXCEPT
                        !.total = @ + 1,
                        !.completed = @ + (IF DictGetCompleted(ts[n]) THEN 1 ELSE 0)]
                ELSE tm1[j]]

TeamMetrics(ts) == TeamMetricsUpTo(ts, Len(ts))

\* (completed / total * 100) if total > 0 else 0, as the metric shows it with
\* f"{...:.1f}": in tenths of a percent, a tie rounded to the even digit.
Percentage(completed, total) ==
    IF total > 0
    THEN LET n == 1000 * completed
             q == n \div total
             r == n % total
         IN  IF 2 * r > total \/ (2 * r = total /\ q % 2 = 1) THEN q + 1 ELSE q
    ELSE 0

\* What create_kpi_dashboard(tasks) hands to st.metric
create_kpi_dashboard(ts) ==
    [total_tasks |-> TotalTasks(ts),
     completed_tasks |-> CompletedTasks(ts),
     task_completion |-> Percentage(CompletedTasks(ts), TotalTasks(ts)),
     team |-> [j \in 1..Len(TeamMetrics(ts)) |->
                 [member |-> TeamMetrics(ts)[j].member,
                  completed |-> TeamMetrics(ts)[j].completed,
                  total |-> TeamMetrics(ts)[j].total,
                  completion_rate |-> Percentage(TeamMetrics(ts)[j].completed,
                                                 TeamMetrics(ts)[j].total)]]]

NoKpi == [shown |-> FALSE, metrics |-> create_kpi_dashboard(<<>>)]

\* create_kpi_dashboard applied to the current collection.  main() calls it
\* for a non-empty collection only; the function itself also takes the empty
\* one, which is the case its `if total_tasks > 0` is written for.
ComputeKpi ==
    /\ pc = "idle"
    /\ ~kpi.shown
    /\ kpi' = [shown |-> TRUE, metrics |-> create_kpi_dashboard(tasks)]
    /\ UNCHANGED <<taskVars, matVars, last, uiVars>>

-----------------------------------------------------------------------------
(* Dates and times *)

\* st.session_state.test_date of a new session: datetime(2025, 1, 6)
InitialTestDate == [day |-> 6, hour |-> 0, minute |-> 0, second |-> 0]

\* What the user sets in the sidebar's date and time inputs
TestDateInputs == {<<6, 12, 0>>, <<7, 0, 0>>, <<8, 8, 0>>}

\* datetime.combine(new_date, new_time)
combine(d, t) == [day |-> d, hour |-> t[1], minute |-> t[2], second |-> 0]

\* datetime.date() and Series.dt.date
DateOf(dt) == dt.day

\* pd.to_datetime of a "%Y-%m-%d %H:%M" string
to_datetime(s) == [day |-> s[1], hour |-> s[2], minute |-> s[3], second |-> 0]

\* dt + timedelta(hours=1)
PlusOneHour(dt) ==
    IF dt.hour = 23 THEN [dt EXCEPT !.day = @ + 1, !.hour = 0]
    ELSE [dt EXCEPT !.hour = @ + 1]

\* The order of two timestamps
Before(a, b) ==
    \/ a.day < b.day
    \/ a.day = b.day /\ a.hour < b.hour
    \/ a.day = b.day /\ a.hour = b.hour /\ a.minute < b.minute
    \/ a.day = b.day /\ a.hour = b.hour /\ a.minute = b.minute /\ a.second < b.second

\* The order of the strings "Christian" < "Crew" < "Jordan"
PersonRank(p) ==
    CASE p = "Christian" -> 1
      [] p = "Crew" -> 2
      [] p = "Jordan" -> 3

\* sorted(...) of a set of integers
RECURSIVE SortedInts(_)
SortedInts(S) ==
    IF S = {} THEN <<>>
    ELSE LET m == CHOOSE x \in S : \A y \in S : x <= y
         IN  <<m>> \o SortedInts(S \ {m})

\* sorted(...) of a set of names
RECURSIVE SortedPeople(_)
SortedPeople(S) ==
    IF S = {} THEN <<>>
    ELSE LET m == CHOOSE x \in S : \A y \in S : PersonRank(x) <= PersonRank(y)
         IN  <<m>> \o SortedPeople(S \ {m})

-----------------------------------------------------------------------------
(* "Materials Needed Today" in the Timeline tab of main() *)

\* One dict of materials_data; the f-string of 'Quantity' is kept as the
\* pair it is formatted from.
DueEntry(m) ==
    [Material |-> m.name,
     Quantity |-> <<m.quantity, m.unit>>,
     Task |-> m.task,
     Status |-> m.status,
     Supplier |-> m.supplier,
     Delivery |-> m.delivery_method]

\* (mutant) every material due today or later
IsDueFrom(m, today) == DateOf(m.needed_by) >= today

\* m.needed_by.date() == today
IsDue(m, today) == DateOf(m.needed_by) = today

\* materials_data = [{...} for m in st.session_state.materials if ...]
materials_data(ms, today) ==
    LET duems == SelectSeq(ms, LAMBDA m : IsDue(m, today))
    IN  [k \in 1..Len(duems) |-> DueEntry(duems[k])]

\* [m for m in materials_data if m['Status'] == status]
Bucket(md, status) == SelectSeq(md, LAMBDA e : e.Status = status)

\* The four columns of the expander
MaterialsNeededToday(ms, today) ==
    LET md == materials_data(ms, today)
    IN  [needed |-> Bucket(md, "Needed"),
         ordered |-> Bucket(md, "Ordered"),
         onsite |-> Bucket(md, "Onsite"),
         on_hand |-> Bucket(md, "On Hand")]

NoDue == [shown |-> FALSE, buckets |-> MaterialsNeededToday(<<>>, 0)]

\* The expander is drawn when there are tasks and materials.
ComputeDue ==
    /\ pc = "idle"
    /\ ~due.shown
    /\ tasks # <<>>
    /\ has_materials
    /\ materials # <<>>
    /\ due' = [shown |-> TRUE,
               buckets |-> MaterialsNeededToday(materials, DateOf(test_date))]
    /\ UNCHANGED <<taskVars, matVars, last, kpi, test_date, flagVars, chart, days>>

-----------------------------------------------------------------------------
(* create_gantt_chart *)

\* f"     -> {subtask['Task']}": the indented label of a subtask (the arrow
\* character of the source is written "->" here)
SubtaskLabel(name) == "     -> " \o name

\* The dicts appended to flat_tasks for one task: the task, then its subtasks
FlatOfTask(t) ==
    << [Task |-> t.Task, Start |-> t.Start, End |-> t.End,
        Assigned_To |-> t.Assigned_To, Is_Subtask |-> FALSE] >>
    \o [j \in 1..Len(t.Subtasks) |->
          [Task |-> SubtaskLabel(t.Subtasks[j].Task),
           Start |-> t.Subtasks[j].Start, End |-> t.Subtasks[j].End,
           Assigned_To |-> t.Subtasks[j].Assigned_To, Is_Subtask |-> TRUE]]

RECURSIVE FlatUpTo(_, _)
FlatUpTo(ts, n) ==
    IF n = 0 THEN <<>> ELSE FlatUpTo(ts, n - 1) \o FlatOfTask(ts[n])

flat_tasks(ts) == FlatUpTo(ts, Len(ts))

\* df['Start'] = pd.to_datetime(...); df['End'] = pd.to_datetime(...) + 1 hour
FrameRow(r) ==
    [r EXCEPT !.Start = to_datetime(r.Start),
              !.End = PlusOneHour(to_datetime(r.End))]

\* The order of sort_values(['Start', 'Assigned To'])
RowBefore(a, b) ==
    \/ Before(a.Start, b.Start)
    \/ a.Start = b.Start /\ PersonRank(a.Assigned_To) < PersonRank(b.Assigned_To)

\* One row put into an already sorted frame, after the rows it does not
\* precede (a sort on several columns is stable)
InsertRow(rows, r) ==
    LET n == Cardinality({k \in 1..Len(rows) : ~RowBefore(r, rows[k])})
    IN  SubSeq(rows, 1, n) \o <<r>> \o SubSeq(rows, n + 1, Len(rows))

RECURSIVE SortedUpTo(_, _)
SortedUpTo(rows, n) ==
    IF n = 0 THEN <<>> ELSE InsertRow(SortedUpTo(rows, n - 1), rows[n])

\* df.sort_values(['Start', 'Assigned To'])
sort_values(rows) == SortedUpTo(rows, Len(rows))

\* df of create_gantt_chart after the sort
GanttFrame(ts) ==
    sort_values([k \in 1..Len(flat_tasks(ts)) |-> FrameRow(flat_tasks(ts)[k])])

\* ff_data, the list handed to ff.create_gantt, one dict per row of df
ff_data(df) ==
    [k \in 1..Len(df) |->
        [Task |-> df[k].Task, Start |-> df[k].Start, Finish |-> df[k].End,
         Resource |-> df[k].Assigned_To]]

NoChart == [shown |-> FALSE, df |-> <<>>]

\* create_gantt_chart applied to the current collection
ComputeChart ==
    /\ pc = "idle"
    /\ ~chart.shown
    /\ tasks # <<>>
    /\ chart' = [shown |-> TRUE, df |-> GanttFrame(tasks)]
    /\ UNCHANGED <<taskVars, matVars, last, kpi, test_date, flagVars, due, days>>

-----------------------------------------------------------------------------
(* "Existing Tasks" in the Timeline tab of main(): one column per day *)

\* (mutant) the day a task ends on
DateColumnOfEnd(t) == DateOf(to_datetime(t.End))

\* df['Date'] = pd.to_datetime(df['Start']).dt.date
DateColumn(t) == DateOf(to_datetime(t.Start))

\* dates = sorted(df['Date'].unique())
Dates(ts) == SortedInts({DateColumn(ts[k]) : k \in 1..Len(ts)})

\* day_tasks = df[df['Date'] == date]: the row labels i, in frame order
RECURSIVE DayTasksUpTo(_, _, _)
DayTasksUpTo(ts, d, n) ==
    IF n = 0 THEN <<>>
    ELSE IF DateColumn(ts[n]) = d THEN Append(DayTasksUpTo(ts, d, n - 1), n - 1)
         ELSE DayTasksUpTo(ts, d, n - 1)

DayTasks(ts, d) == DayTasksUpTo(ts, d, Len(ts))

\* workers = sorted(day_tasks['Assigned To'].unique())
Workers(ts, rows) == SortedPeople({ts[rows[k] + 1].Assigned_To : k \in 1..Len(rows)})

\* The columns drawn: the date, the team of the header, and the rows for
\* which display_task_with_subtasks(task, i, day_tasks) is called
DayColumns(ts) ==
    [c \in 1..Len(Dates(ts)) |->
        [date |-> Dates(ts)[c],
         workers |-> Workers(ts, DayTasks(ts, Dates(ts)[c])),
         rows |-> DayTasks(ts, Dates(ts)[c])]]

NoDays == [shown |-> FALSE, cols |-> <<>>]

\* The section is drawn for a collection that is not empty.
ComputeDays ==
    /\ pc = "idle"
    /\ ~days.shown
    /\ tasks # <<>>
    /\ days' = [shown |-> TRUE, cols |-> DayColumns(tasks)]
    /\ UNCHANGED <<taskVars, matVars, last, kpi, test_date, flagVars, due, chart>>

\* Every handler ends its script run or asks for a new one (st.rerun()); the
\* views of the page are computed again by the next run.
ClearViews ==
    /\ kpi' = NoKpi
    /\ due' = NoDue
    /\ chart' = NoChart
    /\ days' = NoDays

\* "Update Test Date" in the sidebar
UpdateTestDate(in) ==
    /\ pc = "idle"
    /\ test_date' = combine(in[1], <<in[2], in[3]>>)
    /\ last' = [op |-> "update_test_date", idx |-> 0, out |-> "done"]
    /\ ClearViews
    /\ UNCHANGED <<taskVars, matVars, flagVars>>

-----------------------------------------------------------------------------
(* Handlers of the Timeline tab *)

NoToggle == [twice |-> FALSE, was |-> FALSE, was2 |-> FALSE]

\* The "Add Task" button at the bottom of main().  The form is reached only
\* when display_materials_dashboard() returned, that is when load_materials
\* did not raise earlier in the script run.
AddTask(in) ==
    /\ pc = "idle"
    /\ has_materials
    /\ Len(tasks) < MaxTasks
    /\ adds < MaxAdds
    /\ tasks' = AppendedTasks(tasks, in)
    /\ adds' = adds + 1
    /\ tog' = NoToggle
    /\ last' = [op |-> "add_task", idx |-> Len(tasks), out |-> "done"]
    /\ ClearViews
    /\ UNCHANGED <<deletes, matVars, test_date, flagVars>>

\* The delete button of task i in display_task_with_subtasks
DeleteTask(i) ==
    /\ pc = "idle"
    /\ i \in 0..(Len(tasks) - 1)
    /\ deletes < MaxDeletes
    /\ tasks' = PoppedTasks(tasks, i)
    /\ deletes' = deletes + 1
    /\ tog' = NoToggle
    /\ last' = [op |-> "delete_task", idx |-> i, out |-> "done"]
    /\ ClearViews
    /\ UNCHANGED <<adds, matVars, test_date, flagVars>>

\* The completion button of task i in display_task_with_subtasks
ToggleCompletion(i) ==
    /\ pc = "idle"
    /\ i \in 0..(Len(tasks) - 1)
    /\ tasks' = ToggledTasks(tasks, i)
    /\ tog' = LET again == last.op = "toggle" /\ last.idx = i
              IN  [twice |-> again,
                   was |-> DictGetCompleted(tasks[i + 1]),
                   was2 |-> IF again THEN tog.was ELSE FALSE]
    /\ last' = [op |-> "toggle", idx |-> i, out |-> "done"]
    /\ ClearViews
    /\ UNCHANGED <<adds, deletes, matVars, test_date, flagVars>>

\* The "i" button of task i: st.session_state[f"show_details_{i}"] is negated
ToggleDetails(i) ==
    /\ pc = "idle"
    /\ i \in 0..(Len(tasks) - 1)
    /\ show_details' = IF i \in show_details THEN show_details \ {i}
                       ELSE show_details \cup {i}
    /\ last' = [op |-> "details", idx |-> i, out |-> "done"]
    /\ UNCHANGED <<taskVars, matVars, kpi, test_date, show_subtask_form, due,
                   chart, days>>

\* The "+" button of task i: st.session_state[f"show_subtask_form_{i}"] = True
ShowSubtaskForm(i) ==
    /\ pc = "idle"
    /\ i \in 0..(Len(tasks) - 1)
    /\ show_subtask_form' = show_subtask_form \cup {i}
    /\ last' = [op |-> "show_subtask_form", idx |-> i, out |-> "done"]
    /\ UNCHANGED <<taskVars, matVars, kpi, test_date, show_details, due, chart,
                   days>>

\* What the user enters in the subtask form: name, assignee, start time and
\* end time (the date is the one of the parent's start).
NewSubtaskInputs ==
    { <<"Check levels", "Crew", <<7, 0>>, <<8, 0>>>>,
      <<"Sweep", "Christian", <<8, 30>>, <<9, 0>>>> }

\* datetime.combine(start_date, time).strftime("%Y-%m-%d %H:%M")
strftime(dt) == <<dt.day, dt.hour, dt.minute>>

\* new_subtask of the "Add" handler: no 'Completed' key
NewSubtask(t, in) ==
    LET start_date == DateOf(to_datetime(t.Start))
    IN  [Task |-> in[1], Assigned_To |-> in[2],
         Start |-> strftime(combine(start_date, in[3])),
         End |-> strftime(combine(start_date, in[4])),
         Completed |-> <<>>]

\* (mutant) the new subtask put in front of the others
WithSubtaskFirst(ts, i, in) ==
    [ts EXCEPT ![i + 1].Subtasks = <<NewSubtask(ts[i + 1], in)>> \o @]

\* st.session_state.tasks[i]['Subtasks'].append(new_subtask)
WithSubtask(ts, i, in) ==
    [ts EXCEPT ![i + 1].Subtasks = Append(@, NewSubtask(ts[i + 1], in))]

\* st.session_state.tasks[i]['Subtasks'].pop(j)
WithoutSubtask(ts, i, j) == [ts EXCEPT ![i + 1].Subtasks = Pop(@, j)]

\* The number of subtasks of the first n tasks
RECURSIVE SubtaskCount(_, _)
SubtaskCount(ts, n) ==
    IF n = 0 THEN 0 ELSE SubtaskCount(ts, n - 1) + Len(ts[n].Subtasks)

\* "Add" in the subtask form of task i, which is drawn while the form's flag
\* is set; the handler clears the flag.
AddSubtask(i, in) ==
    /\ pc = "idle"
    /\ i \in 0..(Len(tasks) - 1)
    /\ i \in show_subtask_form
    /\ SubtaskCount(tasks, Len(tasks)) < MaxSubtasks
    /\ tasks' = WithSubtask(tasks, i, in)
    /\ show_subtask_form' = show_subtask_form \ {i}
    /\ tog' = NoToggle
    /\ last' = [op |-> "add_subtask", idx |-> <<i, Len(tasks[i + 1].Subtasks)>>,
                out |-> "done"]
    /\ ClearViews
    /\ UNCHANGED <<adds, deletes, matVars, test_date, show_details>>

\* The delete button of subtask j of task i
DeleteSubtask(i, j) ==
    /\ pc = "idle"
    /\ i \in 0..(Len(tasks) - 1)
    /\ j \in 0..(Len(tasks[i + 1].Subtasks) - 1)
    /\ tasks' = WithoutSubtask(tasks, i, j)
    /\ tog' = NoToggle
    /\ last' = [op |-> "delete_subtask", idx |-> <<i, j>>, out |-> "done"]
    /\ ClearViews
    /\ UNCHANGED <<adds, deletes, matVars, test_date, flagVars>>

-----------------------------------------------------------------------------
(* Materials: the Material class and the dashboard's handlers *)

Statuses == <<"Needed", "Ordered", "Onsite", "On Hand">>

StatusSet == Range(Statuses)

\* datetime.strptime(s, "%Y-%m-%d %H:%M"): the seconds are zero
strptime(s) == [day |-> s[1], hour |-> s[2], minute |-> s[3], second |-> 0]

\* What the user enters in the Add New Material form: material_name, the
\* position of the option picked in "Required For Task", quantity,
\* responsible_person, unit, status, delivery_method, supplier.
NewMaterialInputs ==
    { <<"Flagstone", 0, 1, "Christian", "pallet", "Needed", "Pick-up", "Whittlesey">>,
      <<"Mulch", 1, 2, "Unassigned", "yards", "Onsite", "Get Delivered", "">> }

\* The value st.selectbox returns for the option at position p
TaskOption(ts, p) == ts[p + 1].Task

\* next(t for t in st.session_state.tasks if t['Task'] == task)
FirstTaskNamed(ts, name) ==
    ts[CHOOSE k \in 1..Len(ts) :
          /\ ts[k].Task = name
          /\ \A j \in 1..(k - 1) : ts[j].Task # name]

\* new_material of the "Add Material" handler
NewMaterial(ts, in) ==
    LET task == TaskOption(ts, in[2])
    IN  [name |-> in[1],
         task |-> task,
         needed_by |-> strptime(FirstTaskNamed(ts, task).Start),
         status |-> in[6],
         quantity |-> in[3],
         unit |-> in[5],
         delivery_method |-> in[7],
         responsible_person |-> IF in[4] # "Unassigned" THEN in[4] ELSE PyNone,
         supplier |-> IF in[8] # "" THEN in[8] ELSE PyNone]

\* (mutant) a copy-paste slip in the Ordered column: its button sets "On Hand"
AdvanceTargetSlip(status) ==
    CASE status = "Needed" -> "Ordered"
      [] status = "Ordered" -> "On Hand"
      [] status = "Onsite" -> "On Hand"

\* The status the button of each column assigns: "-> Ordered" under Needed,
\* "-> Onsite" under Ordered, "-> On Hand" under Onsite.
AdvanceTarget(status) ==
    CASE status = "Needed" -> "Ordered"
      [] status = "Ordered" -> "Onsite"
      [] status = "Onsite" -> "On Hand"

\* The columns that carry an advance button (the On Hand column has none)
HasAdvanceButton(status) == status \in {"Needed", "Ordered", "Onsite"}

\* A card, with its buttons, is drawn for material i when its status is one
\* of the four column headings.  (Where in the page the card lands, which the
\* rebinding of col1 and col2 inside the loops changes, is not modelled.)
CardShown(ms, i) == i \in 0..(Len(ms) - 1) /\ ms[i + 1].status \in StatusSet

\* What the user does in the edit form of a card: for quantity, responsible
\* person, supplier and delivery method, <<>> leaves the widget as drawn and
\* <<v>> sets it to v.
EditInputs ==
    { << <<>>, <<>>, <<>>, <<>> >>,
      << <<3>>, <<"Jordan">>, <<"">>, <<"Get Delivered">> >> }

\* The values the edit form's widgets are drawn with for material m
WidgetDefaults(m) ==
    << m.quantity,
       IF m.responsible_person = PyNone THEN "Unassigned" ELSE m.responsible_person,
       IF m.supplier = PyNone THEN "" ELSE m.supplier,
       IF m.delivery_method = "Pick-up" THEN "Pick-up" ELSE "Get Delivered" >>

WidgetValue(m, in, k) == IF in[k] = <<>> THEN WidgetDefaults(m)[k] ELSE in[k][1]

\* The four assignments of the "Save Changes" handler
EditedMaterial(m, in) ==
    [m EXCEPT !.quantity = WidgetValue(m, in, 1),
              !.responsible_person = WidgetValue(m, in, 2),
              !.delivery_method = WidgetValue(m, in, 4),
              !.supplier = IF WidgetValue(m, in, 3) = "" THEN PyNone
                           ELSE WidgetValue(m, in, 3)]

-----------------------------------------------------------------------------
(* data_storage.py *)

JsonNull == "null"

\* json encodes None as null and decodes null as None
JsonEncode(v) == IF v = PyNone THEN JsonNull ELSE v

JsonDecode(v) == IF v = JsonNull THEN PyNone ELSE v

\* (mutant) the date alone: the time of day is lost
isoformat_date(dt) == <<dt.day, 0, 0, 0>>

\* datetime.isoformat() of MaterialEncoder.default: "2025-01-DDTHH:MM:SS"
isoformat(dt) == <<dt.day, dt.hour, dt.minute, dt.second>>

\* datetime.fromisoformat
fromisoformat(s) == [day |-> s[1], hour |-> s[2], minute |-> s[3], second |-> s[4]]

\* One dict of materials_data as json.dump writes it: all nine keys
MaterialDict(m) ==
    [name |-> m.name,
     task |-> m.task,
     needed_by |-> isoformat(m.needed_by),
     status |-> m.status,
     quantity |-> m.quantity,
     unit |-> m.unit,
     delivery_method |-> <<JsonEncode(m.delivery_method)>>,
     responsible_person |-> <<JsonEncode(m.responsible_person)>>,
     supplier |-> <<JsonEncode(m.supplier)>>]

\* (mutant) an off-by-one that leaves the last material out
MaterialsDataShort(ms) == [k \in 1..(Len(ms) - 1) |-> MaterialDict(ms[k])]

\* materials_data of save_materials
MaterialsData(ms) == [k \in 1..Len(ms) |-> MaterialDict(ms[k])]

\* (mutant) the other delivery method as the default
OtherDeliveryMethod == "Get Delivered"

\* The defaults of the three m.get(...) calls of load_materials
DefaultDeliveryMethod == "Pick-up"

DefaultResponsiblePerson == PyNone

DefaultSupplier == PyNone

\* m.get(key, default) on a decoded record
DictGet(opt, default) == IF opt = <<>> THEN default ELSE JsonDecode(opt[1])

\* One Material(...) of load_materials
LoadMaterial(r) ==
    [name |-> r.name,
     task |-> r.task,
     needed_by |-> fromisoformat(r.needed_by),
     status |-> r.status,
     quantity |-> r.quantity,
     unit |-> r.unit,
     delivery_method |-> DictGet(r.delivery_method, DefaultDeliveryMethod),
     responsible_person |-> DictGet(r.responsible_person, DefaultResponsiblePerson),
     supplier |-> DictGet(r.supplier, DefaultSupplier)]

\* The file data/materials.json: whether it exists, whether its text is a
\* complete JSON document, and the records its text holds.
NoFile == [exists |-> FALSE, complete |-> FALSE, recs |-> <<>>]

\* load_materials: [] without a file, the materials of a complete file, and
\* an exception (json.load raises) on a file that is no complete document.
LoadRaises(f) == f.exists /\ ~f.complete

LoadMaterials(f) ==
    IF ~f.exists THEN <<>>
    ELSE [k \in 1..Len(f.recs) |-> LoadMaterial(f.recs[k])]

\* Files a session can start from: none, one written by an earlier version
\* of the program without the optional keys, one with every key, and one
\* cut short.
OldRecord ==
    [name |-> "Steel edging", task |-> "Install steel edging (pathway & greenhouse)",
     needed_by |-> <<6, 10, 0, 0>>, status |-> "On Hand", quantity |-> 4,
     unit |-> "pieces", delivery_method |-> <<>>, responsible_person |-> <<>>,
     supplier |-> <<>>]

FullRecord ==
    [name |-> "Pavers", task |-> "Supervise permeable paver installation",
     needed_by |-> <<8, 8, 0, 0>>, status |-> "Onsite", quantity |-> 2,
     unit |-> "pallet", delivery_method |-> <<"Get Delivered">>,
     responsible_person |-> <<JsonNull>>, supplier |-> <<"Whittlesey">>]

InitFiles ==
    { NoFile,
      [exists |-> TRUE, complete |-> TRUE, recs |-> <<OldRecord>>],
      [exists |-> TRUE, complete |-> TRUE, recs |-> <<FullRecord>>],
      [exists |-> TRUE, complete |-> FALSE, recs |-> <<>>] }

-----------------------------------------------------------------------------
(* Handlers of the Materials tab.  Each mutates st.session_state.materials  *)
(* and then calls save_state(); the save is continued by the Save actions.  *)

NoSave == [valid |-> FALSE, materials |-> <<>>]

Begin(op, i) ==
    /\ last' = [op |-> op, idx |-> i, out |-> "running"]
    /\ before' = [materials |-> materials, file |-> file]
    /\ pc' = "save_open"

\* "Add Material"
AddMaterial(in) ==
    /\ pc = "idle"
    /\ has_materials
    /\ Len(materials) < MaxMaterials
    /\ in[2] \in 0..(Len(tasks) - 1)
    /\ materials' = Append(materials, NewMaterial(tasks, in))
    /\ Begin("add_material", Len(materials))
    /\ ClearViews
    /\ UNCHANGED <<taskVars, has_materials, editing, file, saved, faults,
                   test_date, flagVars>>

\* "-> Ordered", "-> Onsite", "-> On Hand" of the card of material i
AdvanceStatus(i) ==
    /\ pc = "idle"
    /\ has_materials
    /\ CardShown(materials, i)
    /\ HasAdvanceButton(materials[i + 1].status)
    /\ materials' = [materials EXCEPT
                        ![i + 1].status = AdvanceTarget(materials[i + 1].status)]
    /\ Begin("advance", i)
    /\ ClearViews
    /\ UNCHANGED <<taskVars, has_materials, editing, file, saved, faults,
                   test_date, flagVars>>

\* "Delete" of the card of material i
DeleteMaterial(i) ==
    /\ pc = "idle"
    /\ has_materials
    /\ CardShown(materials, i)
    /\ materials' = Pop(materials, i)
    /\ Begin("delete_material", i)
    /\ ClearViews
    /\ UNCHANGED <<taskVars, has_materials, editing, file, saved, faults,
                   test_date, flagVars>>

\* The pencil button of the card of material i (on a form that is already
\* open the click changes nothing)
OpenEdit(i) ==
    /\ pc = "idle"
    /\ has_materials
    /\ CardShown(materials, i)
    /\ i \notin editing
    /\ editing' = editing \cup {i}
    /\ last' = [op |-> "open_edit", idx |-> 0, out |-> "done"]
    /\ UNCHANGED <<taskVars, materials, has_materials, file, pc, before, saved,
                   faults, kpi, uiVars>>

\* "Save Changes" of the edit form of the card of material i
SaveChanges(i, in) ==
    /\ pc = "idle"
    /\ has_materials
    /\ CardShown(materials, i)
    /\ i \in editing
    /\ materials' = [materials EXCEPT ![i + 1] = EditedMaterial(materials[i + 1], in)]
    /\ Begin("edit", i)
    /\ ClearViews
    /\ UNCHANGED <<taskVars, has_materials, editing, file, saved, faults,
                   test_date, flagVars>>

-----------------------------------------------------------------------------
(* save_materials, statement by statement *)

\* open('data/materials.json', 'w'): the file is created or cut to nothing
SaveOpen ==
    /\ pc = "save_open"
    /\ file' = [exists |-> TRUE, complete |-> FALSE, recs |-> <<>>]
    /\ saved' = NoSave
    /\ pc' = "save_write"
    /\ UNCHANGED <<taskVars, materials, has_materials, editing, last, before,
                   faults, kpi, uiVars>>

\* open raises (no data directory, no permission): the file is untouched
SaveOpenRaises ==
    /\ pc = "save_open"
    /\ faults < MaxFaults
    /\ faults' = faults + 1
    /\ pc' = "idle"
    /\ last' = [op |-> last.op, idx |-> 0, out |-> "raised"]
    /\ UNCHANGED <<taskVars, materials, has_materials, editing, file, before,
                   saved, kpi, uiVars>>

\* json.dump writes the next record of materials_data
SaveWrite ==
    /\ pc = "save_write"
    /\ Len(file.recs) < Len(MaterialsData(materials))
    /\ file' = [file EXCEPT
                  !.recs = Append(@, MaterialsData(materials)[Len(file.recs) + 1])]
    /\ UNCHANGED <<taskVars, materials, has_materials, editing, pc, last, before,
                   saved, faults, kpi, uiVars>>

\* a write raises (disk full): the file keeps what was written so far
SaveWriteRaises ==
    /\ pc = "save_write"
    /\ faults < MaxFaults
    /\ faults' = faults + 1
    /\ pc' = "idle"
    /\ last' = [op |-> last.op, idx |-> 0, out |-> "raised"]
    /\ UNCHANGED <<taskVars, materials, has_materials, editing, file, before,
                   saved, kpi, uiVars>>

\* the last chunk is written and the file closed; save_state() returns and
\* the handler goes on: "Save Changes" clears its editing flag, all rerun.
SaveClose ==
    /\ pc = "save_write"
    /\ Len(file.recs) = Len(MaterialsData(materials))
    /\ file' = [file EXCEPT !.complete = TRUE]
    /\ saved' = [valid |-> TRUE, materials |-> materials]
    /\ editing' = IF last.op = "edit" THEN editing \ {last.idx} ELSE editing
    /\ before' = [materials |-> materials, file |-> file']
    /\ pc' = "idle"
    /\ last' = [op |-> last.op, idx |-> 0, out |-> "done"]
    /\ UNCHANGED <<taskVars, materials, has_materials, faults, kpi, uiVars>>

Save == SaveOpen \/ SaveWrite \/ SaveClose

-----------------------------------------------------------------------------
(* A session *)

\* The first script run of a session: main() sets the default tasks and
\* display_materials_dashboard() loads the materials.  When load_materials
\* raises, 'materials' is never set and the run ends there.
SessionStart(f) ==
    /\ tasks = InitialTasks
    /\ has_materials = ~LoadRaises(f)
    /\ materials = IF LoadRaises(f) THEN <<>> ELSE LoadMaterials(f)
    /\ editing = {}
    /\ last = [op |-> "load", idx |-> 0,
               out |-> IF LoadRaises(f) THEN "raised" ELSE "done"]
    /\ adds = 0
    /\ deletes = 0
    /\ tog = NoToggle

\* The browser page is reloaded: a new session over the same file
NewSession ==
    /\ pc = "idle"
    /\ tasks' = InitialTasks
    /\ has_materials' = ~LoadRaises(file)
    /\ materials' = IF LoadRaises(file) THEN <<>> ELSE LoadMaterials(file)
    /\ editing' = {}
    /\ last' = [op |-> "load", idx |-> 0,
                out |-> IF LoadRaises(file) THEN "raised" ELSE "done"]
    /\ adds' = 0
    /\ deletes' = 0
    /\ tog' = NoToggle
    /\ before' = [materials |-> materials', file |-> file]
    /\ test_date' = InitialTestDate
    /\ show_details' = {}
    /\ show_subtask_form' = {}
    /\ ClearViews
    /\ UNCHANGED <<file, pc, saved, faults>>

-----------------------------------------------------------------------------
(* The statements of the index-addressed handlers on any index *)

\* s[i] and s.pop(i) raise IndexError unless -len(s) <= i < len(s)
IndexError(s, i) == i \notin (0 - Len(s))..(Len(s) - 1)

\* The position, counted from 0, that an index in range addresses
Position(s, i) == IF i < 0 THEN Len(s) + i ELSE i

\* (mutant) a pop that takes the last element when the index is past the end
PyPopClamped(s, i) ==
    IF IndexError(s, i)
    THEN [raised |-> FALSE, list |-> SubSeq(s, 1, Len(s) - 1)]
    ELSE [raised |-> FALSE, list |-> Pop(s, Position(s, i))]

\* s.pop(i)
PyPop(s, i) ==
    IF IndexError(s, i) THEN [raised |-> TRUE, list |-> s]
    ELSE [raised |-> FALSE, list |-> Pop(s, Position(s, i))]

\* The same handlers as above, as their statements act on collections ts and
\* ms for any integers i and j: the collections afterwards, and whether the
\* statements raised.  Each handler subscripts or pops the collection in its
\* first statement that touches it.
HandlerStatements(op, ts, ms, i, j) ==
    LET raise == [raised |-> TRUE, tasks |-> ts, materials |-> ms]
        t == Position(ts, i)
        m == Position(ms, i)
    IN  CASE op = "delete_task" ->
                [raised |-> PyPop(ts, i).raised, tasks |-> PyPop(ts, i).list,
                 materials |-> ms]
          [] op = "toggle" ->
                IF IndexError(ts, i) THEN raise
                ELSE [raised |-> FALSE, tasks |-> ToggledTasks(ts, t), materials |-> ms]
          [] op = "add_subtask" ->
                IF IndexError(ts, i) THEN raise
                ELSE [raised |-> FALSE, materials |-> ms,
                      tasks |-> WithSubtask(ts, t, CHOOSE in \in NewSubtaskInputs : TRUE)]
          [] op = "delete_subtask" ->
                IF IndexError(ts, i) THEN raise
                ELSE [raised |-> PyPop(ts[t + 1].Subtasks, j).raised,
                      tasks |-> [ts EXCEPT ![t + 1].Subtasks = PyPop(@, j).list],
                      materials |-> ms]
          [] op = "advance" ->
                IF IndexError(ms, i) THEN raise
                ELSE [raised |-> FALSE, tasks |-> ts,
                      materials |-> [ms EXCEPT ![m + 1].status = AdvanceTarget(@)]]
          [] op = "edit" ->
                IF IndexError(ms, i) THEN raise
                ELSE [raised |-> FALSE, tasks |-> ts,
                      materials |-> [ms EXCEPT ![m + 1] =
                          EditedMaterial(@, CHOOSE in \in EditInputs : TRUE)]]
          [] op = "delete_material" ->
                [raised |-> PyPop(ms, i).raised, tasks |-> ts,
                 materials |-> PyPop(ms, i).list]

IndexedOps ==
    {"delete_task", "toggle", "add_subtask", "delete_subtask", "advance", "edit",
     "delete_material"}

\* Whether the indices address an element for the handler op
AddressesElement(op, ts, ms, i, j) ==
    CASE op \in {"delete_task", "toggle", "add_subtask"} -> ~IndexError(ts, i)
      [] op = "delete_subtask" ->
            ~IndexError(ts, i) /\ ~IndexError(ts[Position(ts, i) + 1].Subtasks, j)
      [] op \in {"advance", "edit", "delete_material"} -> ~IndexError(ms, i)

\* The statements of a handler run with indices that address no element (no
\* button of the page does this; the statements are applied as they stand)
OutOfRangeCall(op, i, j) ==
    /\ pc = "idle"
    /\ ~AddressesElement(op, tasks, materials, i, j)
    /\ LET r == HandlerStatements(op, tasks, materials, i, j)
       IN  /\ tasks' = r.tasks
           /\ materials' = r.materials
           /\ last' = [op |-> "out_of_range", idx |-> 0,
                       out |-> IF r.raised THEN "IndexError" ELSE "done"]
    /\ UNCHANGED <<adds, deletes, tog, has_materials, editing, file, pc, before,
                   saved, faults, kpi, uiVars>>

-----------------------------------------------------------------------------
(* Specifications *)

Init ==
    /\ file \in InitFiles
    /\ SessionStart(file)
    /\ pc = "idle"
    /\ before = [materials |-> materials, file |-> file]
    /\ saved = NoSave
    /\ faults = 0
    /\ kpi = NoKpi
    /\ test_date = InitialTestDate
    /\ show_details = {}
    /\ show_subtask_form = {}
    /\ due = NoDue
    /\ chart = NoChart
    /\ days = NoDays

\* The Task Store alone, in a session that found no stored materials
InitTaskStore == Init /\ file = NoFile

NextTaskStore ==
    \/ \E in \in NewTaskInputs : AddTask(in)
    \/ \E i \in 0..(MaxTasks - 1) : DeleteTask(i)
    \/ \E i \in 0..(MaxTasks - 1) : ToggleCompletion(i)

SpecTaskStore == InitTaskStore /\ [][NextTaskStore]_vars

\* The Task Store with the completion metrics computed over it
NextKpi ==
    \/ NextTaskStore
    \/ ComputeKpi

SpecKpi == InitTaskStore /\ [][NextKpi]_vars

\* The Material Store and its file, over the default tasks
NextMaterialStore ==
    \/ \E in \in NewMaterialInputs : AddMaterial(in)
    \/ \E i \in 0..(MaxMaterials - 1) : AdvanceStatus(i)
    \/ \E i \in 0..(MaxMaterials - 1) : DeleteMaterial(i)
    \/ \E i \in 0..(MaxMaterials - 1) : OpenEdit(i)
    \/ \E i \in 0..(MaxMaterials - 1), in \in EditInputs : SaveChanges(i, in)
    \/ Save
    \/ NewSession

SpecMaterialStore == Init /\ [][NextMaterialStore]_vars

\* The same with I/O errors: open or a write of save_materials may raise
NextStorageFaults ==
    \/ NextMaterialStore
    \/ SaveOpenRaises
    \/ SaveWriteRaises

SpecStorageFaults == Init /\ [][NextStorageFaults]_vars

\* The Material Store with the test date and "Materials Needed Today"
NextDueView ==
    \/ \E in \in NewMaterialInputs : AddMaterial(in)
    \/ \E i \in 0..(MaxMaterials - 1) : AdvanceStatus(i)
    \/ \E i \in 0..(MaxMaterials - 1) : DeleteMaterial(i)
    \/ Save
    \/ \E in \in TestDateInputs : UpdateTestDate(in)
    \/ ComputeDue

SpecDueView == Init /\ [][NextDueView]_vars

\* The Task Store with the subtask handlers
NextSubtasks ==
    \/ \E i \in 0..(MaxTasks - 1) : DeleteTask(i)
    \/ \E i \in 0..(MaxTasks - 1) : ShowSubtaskForm(i)
    \/ \E i \in 0..(MaxTasks - 1), in \in NewSubtaskInputs : AddSubtask(i, in)
    \/ \E i \in 0..(MaxTasks - 1), j \in 0..(MaxSubtasks - 1) : DeleteSubtask(i, j)

SpecSubtasks == InitTaskStore /\ [][NextSubtasks]_vars

\* The same with the chart rows computed over it
NextChart ==
    \/ NextSubtasks
    \/ ComputeChart

SpecChart == InitTaskStore /\ [][NextChart]_vars

\* Tasks and materials together: materials are added for tasks while tasks
\* are added and deleted
NextTasksAndMaterials ==
    \/ \E in \in NewTaskInputs : AddTask(in)
    \/ \E i \in 0..(MaxTasks - 1) : DeleteTask(i)
    \/ \E in \in NewMaterialInputs : AddMaterial(in)
    \/ \E i \in 0..(MaxMaterials - 1) : AdvanceStatus(i)
    \/ Save

SpecTasksAndMaterials == InitTaskStore /\ [][NextTasksAndMaterials]_vars

\* The per-index flags of both tabs with the two delete handlers
NextIndexFlags ==
    \/ \E i \in 0..(MaxTasks - 1) : DeleteTask(i)
    \/ \E i \in 0..(MaxTasks - 1) : ToggleDetails(i)
    \/ \E i \in 0..(MaxTasks - 1) : ShowSubtaskForm(i)
    \/ \E in \in NewMaterialInputs : AddMaterial(in)
    \/ \E i \in 0..(MaxMaterials - 1) : OpenEdit(i)
    \/ \E i \in 0..(MaxMaterials - 1) : DeleteMaterial(i)
    \/ Save

SpecIndexFlags == InitTaskStore /\ [][NextIndexFlags]_vars

\* The index-addressed handlers of both tabs, through the page and with
\* indices out of range.  The two tabs share no session state, so each tab's
\* handlers are run in a session of their own: the Timeline handlers in a
\* session whose stored file did not load (its Materials tab draws nothing),
\* the Materials handlers in a session that found no file, with one of the
\* inputs of each form.
InitIndexed ==
    /\ Init
    /\ file \in {f \in InitFiles : ~f.exists \/ ~f.complete}

NextIndexed ==
    \/ \E i \in 0..(MaxTasks - 1) : ~has_materials /\ DeleteTask(i)
    \/ \E i \in 0..(MaxTasks - 1) : ~has_materials /\ ToggleCompletion(i)
    \/ \E i \in 0..(MaxTasks - 1) : ~has_materials /\ ShowSubtaskForm(i)
    \/ \E i \in 0..(MaxTasks - 1), in \in NewSubtaskInputs :
          ~has_materials /\ AddSubtask(i, in)
    \/ \E i \in 0..(MaxTasks - 1), j \in 0..(MaxSubtasks - 1) :
          ~has_materials /\ DeleteSubtask(i, j)
    \/ \E in \in {x \in NewMaterialInputs : x[6] = "Needed"} : AddMaterial(in)
    \/ \E i \in 0..(MaxMaterials - 1) : AdvanceStatus(i)
    \/ \E i \in 0..(MaxMaterials - 1) : DeleteMaterial(i)
    \/ \E i \in 0..(MaxMaterials - 1) : OpenEdit(i)
    \/ \E i \in 0..(MaxMaterials - 1), in \in {x \in EditInputs : x[1] # <<>>} :
          SaveChanges(i, in)
    \/ Save
    \/ \E op \in IndexedOps, i \in {0 - MaxTasks - 1, Len(tasks), Len(materials)} :
          OutOfRangeCall(op, i, 0)
    \/ \E i \in 0..(MaxTasks - 1) : OutOfRangeCall("delete_subtask", i, MaxSubtasks)

SpecIndexed == InitIndexed /\ [][NextIndexed]_vars

\* The Task Store with the per-day columns computed over it
NextDayColumns ==
    \/ NextTaskStore
    \/ ComputeDays

SpecDayColumns == InitTaskStore /\ [][NextDayColumns]_vars

-----------------------------------------------------------------------------
(* Task Store properties *)

\* The task count equals the initial count plus the adds minus the deletes.
TaskCountInv == Len(tasks) = Len(InitialTasks) + adds - deletes

\* A step of the delete handler for index i removes the task at position i
\* (its subtask list with it) and keeps the others, subtasks included, in order.
DeleteTaskStep ==
    (deletes' = deletes + 1) =>
        LET i == last'.idx
        IN  /\ last'.op = "delete_task"
            /\ i \in 0..(Len(tasks) - 1)
            /\ Len(tasks') = Len(tasks) - 1
            /\ \A k \in 1..Len(tasks') :
                  tasks'[k] = IF k <= i THEN tasks[k] ELSE tasks[k + 1]

\* A step of the add handler appends one task and keeps the others.
AddTaskStep ==
    (adds' = adds + 1) =>
        /\ Len(tasks') = Len(tasks) + 1
        /\ \A k \in 1..Len(tasks) : tasks'[k] = tasks[k]

\* C1: for every sequence of add-task and delete-task actions the number of
\* tasks is the initial count plus the adds minus the deletes; a delete of
\* task i removes exactly the task at position i with its subtask list and
\* keeps every other task, with its subtasks, in its previous relative order.
C1_CountAndDelete ==
    /\ []TaskCountInv
    /\ [][DeleteTaskStep /\ AddTaskStep]_vars

\* C1 witness: after at least one add, the first delete has removed task 0,
\* the task that carries two subtasks.
C1_Witness ==
    /\ last.op = "delete_task"
    /\ last.idx = 0
    /\ deletes = 1
    /\ adds >= 1
    /\ Len(tasks) = Len(InitialTasks)
    /\ \A k \in 1..Len(tasks) : tasks[k].Subtasks = <<>>

\* C2: toggling completion of task i twice in a row returns that task's
\* completed value (default false when the key is missing) to what it was
\* before the first toggle.  (Stated as the original claim; the code
\* violates it.)
C2_ToggleTwiceRestores ==
    (last.op = "toggle" /\ tog.twice) =>
        DictGetCompleted(tasks[last.idx + 1]) = tog.was2

\* The frame half of C2, which the code does satisfy: a toggle of task i
\* changes no other task, and no field of task i but 'Completed'.
ToggleFrameStep ==
    (last'.op = "toggle" /\ tasks' # tasks) =>
        /\ Len(tasks') = Len(tasks)
        /\ \A k \in 1..Len(tasks) :
              IF k = last'.idx + 1
              THEN [tasks'[k] EXCEPT !.Completed = <<>>]
                     = [tasks[k] EXCEPT !.Completed = <<>>]
              ELSE tasks'[k] = tasks[k]

ToggleFrame == [][ToggleFrameStep]_vars

-----------------------------------------------------------------------------
(* Material Store properties *)

MutatingOps == {"add_material", "advance", "edit", "delete_material"}

StatusOf(ms) == [k \in 1..Len(ms) |-> ms[k].status]

PipelineSteps == {<<Statuses[k], Statuses[k + 1]>> : k \in 1..(Len(Statuses) - 1)}

\* A step that changes the collection other than by loading it: an add keeps
\* the statuses of the existing materials, a delete removes one position, and
\* any other step moves each status not at all or one stage forward; the
\* advance handler runs only on a material that is not yet On Hand.
StatusStep ==
    LET old == StatusOf(materials)
        new == StatusOf(materials')
    IN  /\ (materials' # materials /\ last'.op # "load") =>
              \/ /\ Len(new) = Len(old) + 1
                 /\ SubSeq(new, 1, Len(old)) = old
              \/ /\ Len(new) = Len(old) - 1
                 /\ \E i \in 0..(Len(old) - 1) : new = Pop(old, i)
              \/ /\ Len(new) = Len(old)
                 /\ \A k \in 1..Len(old) :
                       new[k] = old[k] \/ <<old[k], new[k]>> \in PipelineSteps
        /\ (pc = "idle" /\ pc' # "idle" /\ last'.op = "advance") =>
              /\ old[last'.idx + 1] # "On Hand"
              /\ <<old[last'.idx + 1], new[last'.idx + 1]>> \in PipelineSteps

\* C3: across any sequence of material operations every change of an
\* existing material's status is one of Needed->Ordered, Ordered->Onsite,
\* Onsite->On Hand: it never moves backwards, never skips a stage, and a
\* material that is On Hand has no advance action and never returns to Needed.
C3_StatusPipeline == [][StatusStep]_vars

\* C3 witness: a material added as Needed has been advanced to On Hand.
C3_Witness ==
    /\ last.op = "advance"
    /\ last.out = "done"
    /\ \E k \in 1..Len(materials) :
          materials[k].name = "Flagstone" /\ materials[k].status = "On Hand"

\* C4: after each completed mutating material action (add, advance, edit,
\* delete) the persisted collection equals the in-memory collection.
C4_SavedAfterAction ==
    (pc = "idle" /\ last.op \in MutatingOps /\ last.out = "done") =>
        /\ file.exists
        /\ file.complete
        /\ Len(file.recs) = Len(materials)
        /\ LoadMaterials(file) = materials

\* C4 witness: a delete out of two materials has completed.
C4_Witness ==
    /\ pc = "idle"
    /\ last.op = "delete_material"
    /\ last.out = "done"
    /\ Len(materials) = 1
    /\ Len(file.recs) = 1

\* C5: if the save step of add, advance, edit or delete fails, the in-memory
\* collection is the same as before the action started.  (Stated as the
\* original claim; the code violates it.)
C5_AllOrNothing ==
    (last.op \in MutatingOps /\ last.out = "raised") =>
        materials = before.materials

\* C6: save(materials) followed by load() returns a collection of the same
\* length and order in which each material has the same name, task,
\* neededBy, status, quantity, unit, deliveryMethod, responsiblePerson and
\* supplier (an absent one is read back absent).
C6_RoundTrip ==
    (last.op = "load" /\ saved.valid) =>
        /\ has_materials
        /\ Len(materials) = Len(saved.materials)
        /\ \A k \in 1..Len(saved.materials) :
              LET m == materials[k]
                  w == saved.materials[k]
              IN  /\ m.name = w.name
                  /\ m.task = w.task
                  /\ m.needed_by = w.needed_by
                  /\ m.status = w.status
                  /\ m.quantity = w.quantity
                  /\ m.unit = w.unit
                  /\ m.delivery_method = w.delivery_method
                  /\ m.responsible_person = w.responsible_person
                  /\ m.supplier = w.supplier

\* C6 witness: a session loaded two materials that a finished save stored,
\* one of them without responsible person and without supplier.
C6_Witness ==
    /\ last.op = "load"
    /\ saved.valid
    /\ Len(materials) = 2
    /\ \E k \in 1..2 :
          /\ materials[k].responsible_person = PyNone
          /\ materials[k].supplier = PyNone
          /\ materials[k].delivery_method = "Get Delivered"

\* One record read by load: a missing optional key gives the default, every
\* key that is present gives its value (null read as None, the timestamp
\* string as the datetime it spells).
LoadedAs(r, m) ==
    /\ m.name = r.name
    /\ m.task = r.task
    /\ isoformat(m.needed_by) = r.needed_by
    /\ m.status = r.status
    /\ m.quantity = r.quantity
    /\ m.unit = r.unit
    /\ m.delivery_method =
          IF r.delivery_method = <<>> THEN "Pick-up" ELSE r.delivery_method[1]
    /\ m.responsible_person =
          IF r.responsible_person \in {<<>>, <<JsonNull>>} THEN PyNone
          ELSE r.responsible_person[1]
    /\ m.supplier =
          IF r.supplier \in {<<>>, <<JsonNull>>} THEN PyNone ELSE r.supplier[1]

\* C7: load() returns an empty sequence when no stored data exists, and for
\* each stored record that lacks an optional field it substitutes
\* deliveryMethod "Pick-up", responsiblePerson absent, supplier absent, while
\* every field present in the record is taken unchanged.
C7_LoadDefaults ==
    (last.op = "load" /\ last.out = "done") =>
        /\ has_materials
        /\ ~file.exists => materials = <<>>
        /\ file.exists =>
              /\ Len(materials) = Len(file.recs)
              /\ \A k \in 1..Len(file.recs) : LoadedAs(file.recs[k], materials[k])

\* C7 witness: a session loaded a record that has none of the optional keys.
C7_Witness ==
    /\ last.op = "load"
    /\ last.out = "done"
    /\ file.exists
    /\ Len(file.recs) = 1
    /\ file.recs[1].delivery_method = <<>>
    /\ file.recs[1].supplier = <<>>
    /\ materials[1].delivery_method = "Pick-up"

\* C8: when stored data exists but cannot be decoded, the session starts
\* with an empty material collection and processing continues.  (Stated as
\* the original claim; the code violates it.)
C8_LoadFailureDegrades ==
    (last.op = "load" /\ LoadRaises(file)) =>
        /\ has_materials
        /\ materials = <<>>
        /\ last.out = "done"

\* C9: at every point during and after a save call the stored collection is
\* either the complete prior contents or the complete new collection, never
\* an empty or partial file.  (Stated as the original claim; the code
\* violates it.)
C9_AtomicSave ==
    (pc # "idle" \/ last.op \in MutatingOps) =>
        \/ file = before.file
        \/ /\ file.exists
           /\ file.complete
           /\ file.recs = MaterialsData(materials)

-----------------------------------------------------------------------------
(* View Deriver properties *)

\* x tenths of a percent is num / den * 100 rounded to one decimal
IsPercentage(x, num, den) ==
    LET d == x * den - 1000 * num
    IN  2 * (IF d < 0 THEN -d ELSE d) <= den

\* The collection with the completed flag of every subtask set to b
WithSubtaskFlags(ts, b) ==
    [k \in 1..Len(ts) |->
        [ts[k] EXCEPT !.Subtasks =
            [j \in 1..Len(ts[k].Subtasks) |->
                [ts[k].Subtasks[j] EXCEPT !.Completed = <<b>>]]]]

\* C10: completion metrics count top-level tasks only: overall =
\* completedCount / totalCount * 100, and 0 when there are no tasks; the
\* per-assignee mapping has exactly one entry per distinct assignedTo value
\* among top-level tasks (empty for an empty collection), each with that
\* assignee's completed and total counts; the completed flags of subtasks
\* change neither the overall nor any per-assignee figure.
C10_CompletionMetrics ==
    kpi.shown =>
        LET m == kpi.metrics
            all == 1..Len(tasks)
            done == {k \in all : tasks[k].Completed = <<TRUE>>}
            of(p) == {k \in all : tasks[k].Assigned_To = p}
            members == {tasks[k].Assigned_To : k \in all}
        IN  /\ m.total_tasks = Cardinality(all)
            /\ m.completed_tasks = Cardinality(done)
            /\ IF all = {} THEN m.task_completion = 0
               ELSE IsPercentage(m.task_completion, Cardinality(done),
                                 Cardinality(all))
            /\ Len(m.team) = Cardinality(members)
            /\ {m.team[j].member : j \in 1..Len(m.team)} = members
            /\ \A j \in 1..Len(m.team) :
                  LET p == m.team[j].member
                  IN  /\ m.team[j].total = Cardinality(of(p))
                      /\ m.team[j].completed = Cardinality(of(p) \cap done)
                      /\ IsPercentage(m.team[j].completion_rate,
                                      Cardinality(of(p) \cap done),
                                      Cardinality(of(p)))
            /\ create_kpi_dashboard(WithSubtaskFlags(tasks, TRUE)) = m
            /\ create_kpi_dashboard(WithSubtaskFlags(tasks, FALSE)) = m

\* C10 witness: the metrics of three tasks of two assignees, two of the
\* tasks completed (66.7 %), the first task carrying subtasks.
C10_Witness ==
    /\ kpi.shown
    /\ Len(tasks) = 3
    /\ tasks[1].Subtasks # <<>>
    /\ kpi.metrics.task_completion = 667
    /\ Len(kpi.metrics.team) = 2
    /\ \E j \in 1..2 : kpi.metrics.team[j].completion_rate = 500

\* The metrics of the empty collection: 0 % and an empty mapping
C10_EmptyWitness ==
    /\ kpi.shown
    /\ tasks = <<>>
    /\ kpi.metrics.task_completion = 0
    /\ kpi.metrics.team = <<>>

\* The bucket q holds, in insertion order, exactly the materials at the
\* positions S of the collection ms.
HoldsInOrder(q, ms, S) ==
    /\ Len(q) = Cardinality(S)
    /\ \E f \in [1..Len(q) -> S] :
          /\ \A a, b \in 1..Len(q) : a < b => f[a] < f[b]
          /\ \A a \in 1..Len(q) :
                /\ q[a].Material = ms[f[a]].name
                /\ q[a].Quantity = <<ms[f[a]].quantity, ms[f[a]].unit>>
                /\ q[a].Task = ms[f[a]].task
                /\ q[a].Status = ms[f[a]].status

\* C11: the materials-due view contains exactly the materials whose
\* neededBy date equals the reference date, each in exactly one of the four
\* buckets Needed, Ordered, Onsite, On Hand according to its status, in
\* insertion order within each bucket; no material due on another date
\* appears and no due material is missing.
C11_MaterialsDue ==
    due.shown =>
        LET b == due.buckets
            DueAs(st) == {k \in 1..Len(materials) :
                            /\ materials[k].needed_by.day = test_date.day
                            /\ materials[k].status = st}
        IN  /\ HoldsInOrder(b.needed, materials, DueAs("Needed"))
            /\ HoldsInOrder(b.ordered, materials, DueAs("Ordered"))
            /\ HoldsInOrder(b.onsite, materials, DueAs("Onsite"))
            /\ HoldsInOrder(b.on_hand, materials, DueAs("On Hand"))
            /\ Len(b.needed) + Len(b.ordered) + Len(b.onsite) + Len(b.on_hand)
                  = Cardinality({k \in 1..Len(materials) :
                                   materials[k].needed_by.day = test_date.day})

\* C11 witness: on a date other than the first day of the project, of two
\* materials one is due and shown in the On Hand bucket, the other is due
\* on another day and shown nowhere.
C11_Witness ==
    /\ due.shown
    /\ test_date.day = 8
    /\ Len(materials) = 2
    /\ Len(due.buckets.on_hand) = 1
    /\ due.buckets.on_hand[1].Material = "Mulch"
    /\ due.buckets.needed = <<>>
    /\ due.buckets.ordered = <<>>
    /\ due.buckets.onsite = <<>>
    /\ \E k \in 1..2 : materials[k].needed_by.day = 6

\* Two materials due on the reference date in one bucket, in insertion order
C11_SameBucketWitness ==
    /\ due.shown
    /\ Len(due.buckets.on_hand) = 2
    /\ due.buckets.on_hand[1].Material = "Steel edging"
    /\ due.buckets.on_hand[2].Material = "Flagstone"

\* Row r of the chart's frame is the entry of task or subtask t.
RowOf(r, t, sub) ==
    /\ r.Is_Subtask = sub
    /\ sub \/ r.Task = t.Task
    /\ r.Assigned_To = t.Assigned_To
    /\ <<r.Start.day, r.Start.hour, r.Start.minute>> = t.Start

\* C12: in the entry sequence create_gantt_chart hands to the chart each
\* task contributes one entry with isSubtask=false and each of its subtasks
\* one entry with isSubtask=true, and the subtask entries of a task come
\* immediately after their parent's entry in subtask order, with no entry of
\* another task between them.  (Stated as the original claim; the code
\* violates it.)
C12_SubtasksFollowParent ==
    chart.shown =>
        /\ Len(chart.df) = Len(tasks) + SubtaskCount(tasks, Len(tasks))
        /\ \E at \in [1..Len(tasks) -> 1..Len(chart.df)] :
              /\ \A k \in 1..Len(tasks) :
                    /\ at[k] + Len(tasks[k].Subtasks) <= Len(chart.df)
                    /\ RowOf(chart.df[at[k]], tasks[k], FALSE)
                    /\ \A j \in 1..Len(tasks[k].Subtasks) :
                          RowOf(chart.df[at[k] + j], tasks[k].Subtasks[j], TRUE)
              /\ \A k, n \in 1..Len(tasks) :
                    k # n => \/ at[k] + Len(tasks[k].Subtasks) < at[n]
                             \/ at[n] + Len(tasks[n].Subtasks) < at[k]

\* What the flattening alone gives, before the frame is sorted: the claim's
\* order (holds of flat_tasks).
FlatOrder ==
    LET ft == flat_tasks(tasks)
        at(k) == k + SubtaskCount(tasks, k - 1)
    IN  /\ Len(ft) = Len(tasks) + SubtaskCount(tasks, Len(tasks))
        /\ \A k \in 1..Len(tasks) :
              /\ ft[at(k)].Is_Subtask = FALSE
              /\ ft[at(k)].Task = tasks[k].Task
              /\ \A j \in 1..Len(tasks[k].Subtasks) :
                    /\ ft[at(k) + j].Is_Subtask = TRUE
                    /\ ft[at(k) + j].Start = tasks[k].Subtasks[j].Start

\* A step of a subtask handler on task i: the number of tasks, every other
\* task and every field of task i but 'Subtasks' stay as they were.
SubtaskFrame(i) ==
    /\ Len(tasks') = Len(tasks)
    /\ \A k \in 1..Len(tasks) :
          IF k = i + 1
          THEN [tasks'[k] EXCEPT !.Subtasks = <<>>] = [tasks[k] EXCEPT !.Subtasks = <<>>]
          ELSE tasks'[k] = tasks[k]

AddSubtaskStep ==
    (last'.op = "add_subtask" /\ tasks' # tasks) =>
        LET i == last'.idx[1]
            old == tasks[i + 1].Subtasks
            new == tasks'[i + 1].Subtasks
        IN  /\ i \in 0..(Len(tasks) - 1)
            /\ SubtaskFrame(i)
            /\ Len(new) = Len(old) + 1
            /\ \A p \in 1..Len(old) : new[p] = old[p]
            /\ \E in \in NewSubtaskInputs :
                  /\ new[Len(new)].Task = in[1]
                  /\ new[Len(new)].Assigned_To = in[2]
                  /\ new[Len(new)].Start = <<tasks[i + 1].Start[1]>> \o in[3]
                  /\ new[Len(new)].End = <<tasks[i + 1].Start[1]>> \o in[4]

DeleteSubtaskStep ==
    (last'.op = "delete_subtask" /\ tasks' # tasks) =>
        LET i == last'.idx[1]
            j == last'.idx[2]
            old == tasks[i + 1].Subtasks
            new == tasks'[i + 1].Subtasks
        IN  /\ i \in 0..(Len(tasks) - 1)
            /\ j \in 0..(Len(old) - 1)
            /\ SubtaskFrame(i)
            /\ Len(new) = Len(old) - 1
            /\ \A p \in 1..Len(new) : new[p] = IF p <= j THEN old[p] ELSE old[p + 1]

\* C18: addSubtask on task i appends the new subtask at the end of task i's
\* subtask sequence (also when the task has none), deleteSubtask(i, j)
\* removes exactly the subtask at position j of task i and keeps the
\* remaining subtasks in their order, and both leave the number of tasks,
\* every other task and every other field of task i unchanged.
C18_SubtaskOps == [][AddSubtaskStep /\ DeleteSubtaskStep]_vars

\* C18 witness: after a subtask was appended to the two of the first task,
\* the middle one of the three has been deleted.
C18_Witness ==
    /\ last.op = "delete_subtask"
    /\ last.idx = <<0, 1>>
    /\ Len(tasks) = 2
    /\ Len(tasks[1].Subtasks) = 2
    /\ tasks[1].Subtasks[1].Task = "Measure and mark corners"
    /\ tasks[1].Subtasks[2].Task = "Sweep"
    /\ tasks[1].Subtasks[2].Start = <<6, 8, 30>>

\* A subtask added to a task that had none
C18_FirstSubtaskWitness ==
    /\ last.op = "add_subtask"
    /\ last.idx = <<1, 0>>
    /\ Len(tasks) = 2
    /\ Len(tasks[2].Subtasks) = 1
    /\ tasks[2].Subtasks[1].Start = <<8, 7, 0>>

\* C13: for every non-empty task collection the per-day grouping lists the
\* distinct start dates in ascending order, every task appears in exactly
\* one group, the group of the date portion of its start (also when its end
\* falls on a later day), and each group's team roster is exactly the set of
\* distinct assignedTo values of the tasks in that group.
C13_DayGroups ==
    days.shown =>
        LET c == days.cols
            all == 1..Len(tasks)
            startDay(k) == tasks[k].Start[1]
            listed(a, k) == {p \in 1..Len(c[a].rows) : c[a].rows[p] = k - 1}
        IN  /\ \A a, b \in 1..Len(c) : a < b => c[a].date < c[b].date
            /\ {c[a].date : a \in 1..Len(c)} = {startDay(k) : k \in all}
            /\ \A a \in 1..Len(c) :
                  /\ \A p \in 1..Len(c[a].rows) : c[a].rows[p] + 1 \in all
                  /\ \A k \in all :
                        Cardinality(listed(a, k))
                          = IF c[a].date = startDay(k) THEN 1 ELSE 0
                  /\ Range(c[a].workers)
                        = {tasks[k].Assigned_To : k \in {n \in all : startDay(n) = c[a].date}}
                  /\ Len(c[a].workers) = Cardinality(Range(c[a].workers))

\* C13 witness: three tasks in two columns; the first column holds the
\* tasks 0 and 2 of two assignees, the second a task that ends a day later
\* than it starts.
C13_Witness ==
    /\ days.shown
    /\ Len(tasks) = 3
    /\ Len(days.cols) = 2
    /\ days.cols[1].date = 6
    /\ days.cols[1].rows = <<0, 2>>
    /\ days.cols[1].workers = <<"Christian", "Crew">>
    /\ days.cols[2].rows = <<1>>
    /\ tasks[2].End[1] > tasks[2].Start[1]

-----------------------------------------------------------------------------
(* Material fields *)

\* The step in which a Materials handler mutates the collection
HandlerStep(op) == pc = "idle" /\ pc' = "save_open" /\ last'.op = op

\* A step of "Save Changes" on material i: only the four edited fields of
\* material i may change, and a field whose widget the user left as it was
\* drawn keeps its value.
EditStep ==
    HandlerStep("edit") =>
        LET i == last'.idx
            old == materials[i + 1]
            new == materials'[i + 1]
        IN  /\ Len(materials') = Len(materials)
            /\ \A k \in 1..Len(materials) : k # i + 1 => materials'[k] = materials[k]
            /\ new.name = old.name
            /\ new.task = old.task
            /\ new.needed_by = old.needed_by
            /\ new.status = old.status
            /\ new.unit = old.unit
            /\ \A in \in EditInputs :
                  new = EditedMaterial(old, in) =>
                      /\ in[1] = <<>> => new.quantity = old.quantity
                      /\ in[2] = <<>> => new.responsible_person = old.responsible_person
                      /\ in[3] = <<>> => new.supplier = old.supplier
                      /\ in[4] = <<>> => new.delivery_method = old.delivery_method

\* C14: editMaterial on material i is a partial update: it can change only
\* quantity, responsiblePerson, deliveryMethod and supplier of material i; a
\* field the user did not supply a new value for keeps its prior value;
\* name, task, neededBy, status and unit of material i, every field of every
\* other material, and the order of the collection are unchanged.  (Stated
\* as the original claim; the code violates it.)
C14_EditIsPartialUpdate == [][EditStep]_vars

\* C15: in every reachable state each material's responsiblePerson is either
\* absent or one of the person labels Christian, Jordan, Crew; "Unassigned"
\* chosen in the add form or the edit form leaves it absent.  (Stated as the
\* original claim; the code violates it.)
C15_ResponsibleIsPersonOrAbsent ==
    \A k \in 1..Len(materials) :
        materials[k].responsible_person \in People \cup {PyNone}

\* The part of C15 that the add form does satisfy
AddFormResponsible ==
    [][HandlerStep("add_material") =>
          materials'[Len(materials')].responsible_person \in People \cup {PyNone}]_vars

\* A step of "Add Material" with the task option at position in[2] selected:
\* the new material carries that task's name and start.
AddMaterialStep ==
    HandlerStep("add_material") =>
        \A in \in NewMaterialInputs :
            (/\ in[2] \in 0..(Len(tasks) - 1)
             /\ materials' = Append(materials, NewMaterial(tasks, in))) =>
                LET new == materials'[Len(materials')]
                    sel == tasks[in[2] + 1]
                IN  /\ new.task = sel.Task
                    /\ <<new.needed_by.day, new.needed_by.hour, new.needed_by.minute>>
                          = sel.Start

\* No step changes the neededBy or the task label of a material that stays
\* in the collection.
NeededByFrame ==
    (Len(materials') = Len(materials) \/ HandlerStep("add_material")) =>
        \A k \in 1..Len(materials) :
            /\ materials'[k].needed_by = materials[k].needed_by
            /\ materials'[k].task = materials[k].task

\* C16: addMaterial sets the new material's neededBy to the start of the
\* task the user selected, also when several tasks share that name, and
\* afterwards no task operation and no material edit or status advance
\* changes that neededBy or the material's task label.  (Stated as the
\* original claim; the code violates it.)
C16_NeededByFromSelectedTask == [][AddMaterialStep /\ NeededByFrame]_vars

\* The second half of C16 alone, which the code does satisfy
C16_NeededByKept == [][NeededByFrame]_vars

-----------------------------------------------------------------------------
(* Per-index flags *)

\* After the element at position k was deleted from a collection that now
\* has n elements, the flags are on the same elements as before.
FlagsFollow(old, new, k, n) ==
    /\ \A p \in new : p < n => (IF p < k THEN p ELSE p + 1) \in old
    /\ \A q \in old : q # k => (IF q < k THEN q ELSE q - 1) \in new

TaskDeleteFlags ==
    (last'.op = "delete_task" /\ Len(tasks') = Len(tasks) - 1) =>
        /\ FlagsFollow(show_details, show_details', last'.idx, Len(tasks'))
        /\ FlagsFollow(show_subtask_form, show_subtask_form', last'.idx, Len(tasks'))

MaterialDeleteFlags ==
    HandlerStep("delete_material") =>
        FlagsFollow(editing, editing', last'.idx, Len(materials'))

\* C19: after a task or material at position k is deleted, an edit form
\* opened for a material or a subtask form or details panel opened for a
\* task at a position greater than or equal to k is still attached to the
\* element it was opened for, not to the element that shifted into that
\* position.  (Stated as the original claim; the code violates it.)
C19_FlagsFollowElements == [][TaskDeleteFlags /\ MaterialDeleteFlags]_vars

-----------------------------------------------------------------------------
(* Index-addressed handlers *)

\* Statements run with indices that address no element raise and leave both
\* collections as they were.
OutOfRangeStep ==
    (last'.op = "out_of_range") =>
        /\ last'.out = "IndexError"
        /\ tasks' = tasks
        /\ materials' = materials

\* A handler run from the page addresses an element of the collection as it
\* is when the handler starts.
IssuedInRange ==
    /\ (last'.op \in {"delete_task", "toggle"} /\ tasks' # tasks) =>
          last'.idx \in 0..(Len(tasks) - 1)
    /\ (last'.op \in {"add_subtask", "delete_subtask"} /\ tasks' # tasks) =>
          last'.idx[1] \in 0..(Len(tasks) - 1)
    /\ (last'.op = "delete_subtask" /\ tasks' # tasks) =>
          last'.idx[2] \in 0..(Len(tasks[last'.idx[1] + 1].Subtasks) - 1)
    /\ (HandlerStep("advance") \/ HandlerStep("edit") \/ HandlerStep("delete_material")) =>
          last'.idx \in 0..(Len(materials) - 1)

C17_TasksWitness ==
    /\ last.op = "delete_subtask"
    /\ deletes = 1
    /\ Len(tasks) = 1

====
